---- MODULE Spec2Model ----
(***************************************************************************)
(* Model of apps/src/lib/node/matchmaker.rs: the matchmaker driver `run`,  *)
(* the worker thread running Runner::listen with the loaded dylib, and the *)
(* asynchronous ResultHandler that drains the unbounded mpsc channel.      *)
(*                                                                         *)
(* Option<T> is modelled as a sequence of length 0 (None) or 1 (Some).     *)
(***************************************************************************)
EXTENDS Naturals, Sequences, FiniteSets, TLC

\* ------------------------------------------------------------------ bounds
\* Longest stream of AddIntent messages the listener yields before it ends.
MaxIntents == 2

\* ------------------------------------------------------------- value sets
\* The three entry points the code looks up in the dylib (lines 197, 228, 241).
SYM_NEW == "_new_matchmaker"
SYM_ADD == "_add_intent"
SYM_DROP == "_drop_matchmaker"
RequiredSymbols == {SYM_NEW, SYM_ADD, SYM_DROP}

\* Values `_new_matchmaker` may return: a null pointer or a live pointer.
LiveHandle == "h1"
NullHandle == "null"
Handles == {LiveHandle, NullHandle}

\* MsgFromServer::AddIntent { id, data }
IntentIds == {1, 2}
IntentData == {7}
AddIntentMsgs == [id : IntentIds, data : IntentData]

\* Byte strings a plugin may put in AddIntentResult.tx: <<1, 5>> is a
\* length-prefixed list with one exchange, <<2, 5>> announces two exchanges
\* and carries one (truncated input).
TxPayloads == {<<1, 5>>, <<2, 5>>}
MatchedIdSets == {<<1, 2>>}

None == <<>>
Some(x) == <<x>>
IsSome(o) == Len(o) = 1
Unwrapped(o) == o[1]

\* AddIntentResult { tx: Option<Vec<u8>>, matched_intents: Option<..> }
AddIntentResults ==
    [tx : {None} \cup {Some(p) : p \in TxPayloads},
     matched_intents : {None} \cup {Some(s) : s \in MatchedIdSets}]

Epochs == {1, 2}
Addresses == {8, 9}

\* A plugin file as the loader sees it.  A file that does not exist cannot
\* be opened, and a file that cannot be opened exports nothing.
Plugins ==
    {p \in [exists : BOOLEAN, opens : BOOLEAN,
            symbols : SUBSET RequiredSymbols, handle : Handles] :
        /\ (~p.exists => ~p.opens)
        /\ (~p.opens => p.symbols = {})
        /\ (SYM_NEW \notin p.symbols => p.handle = LiveHandle)}

\* Every finite stream of AddIntent messages of length <= MaxIntents.
Streams == UNION {[1..n -> AddIntentMsgs] : n \in 0..MaxIntents}

\* ------------------------------------------------------------------ state
VARIABLES
    plugin,            \* the dylib found at matchmaker_path (environment)
    tx_source_address, \* ResultHandler.tx_source_address (configuration)
    listener,          \* messages the ClientListener has still to yield
    dpc,               \* position of `run` (the driver)
    wpc,               \* position of the worker thread in Runner::listen
    hpc,               \* position of ResultHandler::run
    process,           \* "running", or how the process ended
    impl_state,        \* MatchmakerImpl.state: Some(handle) while impl lives
    worker_panic,      \* why the worker is unwinding, "none" if it is not
    channel,           \* outcomes queued in the unbounded mpsc channel
    result_send,       \* TRUE while Runner.result_send is not dropped
    result_recv,       \* TRUE while ResultHandler.result_recv is not dropped
    cur,               \* the outcome ResultHandler::run is processing
    cur_tx,            \* submit_tx: serialized IntentTransfers, then WrapperTx
    delivered,         \* history: messages handed to the listen callback
    plugin_calls,      \* history: calls made into the dylib
    sent,              \* history: outcomes put on the channel
    received,          \* history: outcomes recv() returned
    effects            \* history: what the ResultHandler did, in order

vars ==
    <<plugin, tx_source_address, listener, dpc, wpc, hpc, process,
      impl_state, worker_panic, channel, result_send, result_recv, cur,
      cur_tx, delivered, plugin_calls, sent, received, effects>>

env_vars == <<plugin, tx_source_address>>
worker_vars ==
    <<listener, wpc, impl_state, worker_panic, delivered, plugin_calls>>
handler_vars == <<hpc, cur, cur_tx, received, effects>>

\* ---------------------------------------------------------- pure helpers
\* MatchedExchanges::try_from_slice: a length-prefixed list; the input must
\* hold exactly the announced number of items and nothing after them.
try_from_slice(bytes) ==
    IF Len(bytes) >= 1 /\ Len(bytes) = bytes[1] + 1
    THEN [ok |-> TRUE, matches |-> Tail(bytes)]
    ELSE [ok |-> FALSE, matches |-> <<>>]

\* Mutant of IntentTransfers: the fee token's address is taken for the
\* source.
IntentTransfers_xan_source(matches, source) ==
    [matches |-> matches, source |-> 0]

\* IntentTransfers { matches, source }
IntentTransfers(matches, source) == [matches |-> matches, source |-> source]

\* IntentTransfers::try_to_vec: the fields in declaration order.
try_to_vec(intent_transfers) ==
    <<Len(intent_transfers.matches)>> \o intent_transfers.matches
        \o <<intent_transfers.source>>

\* WrapperTx::new(Fee { amount: 0, token: xan }, key, epoch, 0,
\*                Tx::new(tx_code, Some(tx_data)).sign(key))
WrapperTx_new(epoch, tx_data) ==
    [fee |-> [amount |-> 0, token |-> "xan"],
     pk |-> "tx_signing_key",
     epoch |-> epoch,
     gas_limit |-> 0,
     tx |-> [code |-> "tx_code", data |-> Some(tx_data),
             signed_by |-> "tx_signing_key"]]

PluginCall(op, handle, intent, result) ==
    [op |-> op, handle |-> handle, thread |-> "worker",
     intent |-> intent, result |-> result]

Effect(kind, n, val) == [kind |-> kind, n |-> n, val |-> val]

\* Mutant of Announced: the announcement sits inside the `if let Some(tx)`
\* block, so an outcome without a transaction is never announced.
Announced_only_with_tx(log, result, n) ==
    IF IsSome(result.tx) /\ IsSome(result.matched_intents)
    THEN Append(log, Effect("matched", n, Unwrapped(result.matched_intents)))
    ELSE log

\* Mutant of Announced: matched_intents.unwrap_or_default() is announced
\* for every outcome.
Announced_always(log, result, n) ==
    Append(log,
           Effect("matched", n,
                  IF IsSome(result.matched_intents)
                  THEN Unwrapped(result.matched_intents) ELSE <<>>))

\* dialer.send(MsgFromClient::Matched { intent_ids }) when the outcome
\* carries matched intents: the effects log after lines 253-255.
Announced(log, result, n) ==
    IF IsSome(result.matched_intents)
    THEN Append(log, Effect("matched", n, Unwrapped(result.matched_intents)))
    ELSE log

\* ------------------------------------------------------------------- Init
Init ==
    /\ plugin \in Plugins
    /\ tx_source_address \in Addresses
    /\ listener \in Streams
    /\ dpc = "spawn"
    /\ wpc = "not_started"
    /\ hpc = "not_started"
    /\ process = "running"
    /\ impl_state = None
    /\ worker_panic = "none"
    /\ channel = <<>>
    /\ result_send = TRUE
    /\ result_recv = TRUE
    /\ cur = None
    /\ cur_tx = None
    /\ delivered = <<>>
    /\ plugin_calls = <<>>
    /\ sent = <<>>
    /\ received = <<>>
    /\ effects = <<>>

\* ----------------------------------------------------------------- driver
\* run, lines 48-64: build the pair, spawn the worker, start awaiting
\* result_handler.run().
run_spawn ==
    /\ process = "running"
    /\ dpc = "spawn"
    /\ dpc' = "await"
    /\ wpc' = "load"
    /\ hpc' = "recv"
    /\ UNCHANGED <<env_vars, listener, process, impl_state, worker_panic,
                   channel, result_send, result_recv, cur, cur_tx, delivered,
                   plugin_calls, sent, received, effects>>

\* run, line 64: result_handler.run().await completes.
run_await ==
    /\ process = "running"
    /\ dpc = "await"
    /\ hpc = "returned"
    /\ dpc' = "join"
    /\ UNCHANGED <<env_vars, worker_vars, handler_vars, process, channel,
                   result_send, result_recv, sent>>

\* run, line 64: a panic inside result_handler.run() unwinds out of `run`
\* on the thread that called it; the join handle is dropped without a join
\* and the process ends with the worker wherever it is.
run_unwind ==
    /\ process = "running"
    /\ dpc = "await"
    /\ hpc = "panicked"
    /\ dpc' = "panicked"
    /\ process' = "panic"
    /\ UNCHANGED <<env_vars, worker_vars, handler_vars, channel,
                   result_send, result_recv, sent>>

\* run, lines 66-69: join the worker; a panic of the worker is an Err and
\* ends the process through cli::safe_exit(1).
run_join ==
    /\ process = "running"
    /\ dpc = "join"
    /\ wpc \in {"returned", "panicked"}
    /\ IF wpc = "panicked"
       THEN dpc' = "exit" /\ process' = "exit1"
       ELSE dpc' = "returned" /\ process' = "returned"
    /\ UNCHANGED <<env_vars, worker_vars, handler_vars, channel,
                   result_send, result_recv, sent>>

\* ----------------------------------------------------------------- worker
\* The worker starts to unwind with the given panic message.  `to` is
\* "drop_impl" when the MatchmakerImpl local exists, "drop_self" before.
Panic(why, to) ==
    /\ worker_panic' = why
    /\ wpc' = to

\* Runner::listen, lines 172-197: locate the dylib, open it and look up the
\* constructor.  Each failure is a panic before `impl` exists.
listen_load ==
    /\ process = "running"
    /\ wpc = "load"
    /\ IF ~plugin.exists THEN Panic("dylib_not_found", "drop_self")
       ELSE IF ~plugin.opens THEN Panic("Library::new", "drop_self")
       ELSE IF SYM_NEW \notin plugin.symbols
       THEN Panic("get(_new_matchmaker)", "drop_self")
       ELSE wpc' = "construct" /\ UNCHANGED worker_panic
    /\ UNCHANGED <<env_vars, listener, dpc, hpc, process, impl_state,
                   channel, result_send, result_recv, cur, cur_tx, delivered,
                   plugin_calls, sent, received, effects>>

\* Runner::listen, lines 199-204: call the constructor and keep whatever
\* pointer it returns in MatchmakerImpl.state.
listen_construct ==
    /\ process = "running"
    /\ wpc = "construct"
    /\ plugin_calls' =
           Append(plugin_calls, PluginCall("new", plugin.handle, None, None))
    /\ impl_state' = Some(plugin.handle)
    /\ wpc' = "listening"
    /\ UNCHANGED <<env_vars, listener, dpc, hpc, process, worker_panic,
                   channel, result_send, result_recv, cur, cur_tx, delivered,
                   sent, received, effects>>

\* Mutant of try_match_intent: the address of the Arc is passed instead of
\* the pointer it holds.
try_match_intent_arc_ptr(msg, result) ==
    IF SYM_ADD \notin plugin.symbols
    THEN /\ Panic("get(_add_intent)", "drop_impl")
         /\ UNCHANGED <<plugin_calls, channel, sent>>
    ELSE /\ plugin_calls' =
                Append(plugin_calls,
                       PluginCall("add", "arc", Some(msg), Some(result)))
         /\ IF result_recv
            THEN /\ channel' = Append(channel, result)
                 /\ sent' = Append(sent, result)
                 /\ UNCHANGED <<wpc, worker_panic>>
            ELSE /\ Panic("send", "drop_impl")
                 /\ UNCHANGED <<channel, sent>>

\* Mutant of try_match_intent: the channel is bounded (capacity 1) and the
\* send waits for room.
try_match_intent_bounded(msg, result) ==
    IF SYM_ADD \notin plugin.symbols
    THEN /\ Panic("get(_add_intent)", "drop_impl")
         /\ UNCHANGED <<plugin_calls, channel, sent>>
    ELSE /\ plugin_calls' =
                Append(plugin_calls,
                       PluginCall("add", Unwrapped(impl_state), Some(msg),
                                  Some(result)))
         /\ IF result_recv
            THEN /\ Len(channel) < 1
                 /\ channel' = Append(channel, result)
                 /\ sent' = Append(sent, result)
                 /\ UNCHANGED <<wpc, worker_panic>>
            ELSE /\ Panic("send", "drop_impl")
                 /\ UNCHANGED <<channel, sent>>

\* Runner::try_match_intent, lines 216-234: look up _add_intent, call it
\* with the stored pointer, send the result.  `result` is what the plugin
\* returns for this intent.
try_match_intent(msg, result) ==
    IF SYM_ADD \notin plugin.symbols
    THEN /\ Panic("get(_add_intent)", "drop_impl")
         /\ UNCHANGED <<plugin_calls, channel, sent>>
    ELSE /\ plugin_calls' =
                Append(plugin_calls,
                       PluginCall("add", Unwrapped(impl_state), Some(msg),
                                  Some(result)))
         /\ IF result_recv
            THEN /\ channel' = Append(channel, result)
                 /\ sent' = Append(sent, result)
                 /\ UNCHANGED <<wpc, worker_panic>>
            ELSE /\ Panic("send", "drop_impl")
                 /\ UNCHANGED <<channel, sent>>

\* Runner::listen, lines 207-211: the listener yields its next message and
\* the callback runs try_match_intent on it.
listen_AddIntent ==
    /\ process = "running"
    /\ wpc = "listening"
    /\ listener # <<>>
    /\ listener' = Tail(listener)
    /\ delivered' = Append(delivered, Head(listener))
    /\ \E result \in AddIntentResults :
           try_match_intent(Head(listener), result)
    /\ UNCHANGED <<env_vars, dpc, hpc, process, impl_state, result_send,
                   result_recv, cur, cur_tx, received, effects>>

\* Runner::listen, line 212: the listener's stream has ended, `listen`
\* returns and the function's locals go out of scope.
listen_end ==
    /\ process = "running"
    /\ wpc = "listening"
    /\ listener = <<>>
    /\ wpc' = "drop_impl"
    /\ UNCHANGED <<env_vars, listener, dpc, hpc, process, impl_state,
                   worker_panic, channel, result_send, result_recv, cur,
                   cur_tx, delivered, plugin_calls, sent, received, effects>>

\* Mutant of MatchmakerImpl_drop: the destructor is a call at the end of
\* listen instead of a Drop, so an unwinding thread skips it.
MatchmakerImpl_drop_skipped_on_unwind ==
    /\ process = "running"
    /\ wpc = "drop_impl"
    /\ IF worker_panic # "none"
       THEN /\ impl_state' = None
            /\ wpc' = "drop_self"
            /\ UNCHANGED <<plugin_calls, worker_panic, process>>
       ELSE IF SYM_DROP \in plugin.symbols
       THEN /\ plugin_calls' =
                   Append(plugin_calls,
                          PluginCall("drop", Unwrapped(impl_state), None, None))
            /\ impl_state' = None
            /\ wpc' = "drop_self"
            /\ UNCHANGED <<worker_panic, process>>
       ELSE /\ Panic("get(_drop_matchmaker)", "drop_self")
            /\ impl_state' = None
            /\ UNCHANGED <<plugin_calls, process>>
    /\ UNCHANGED <<env_vars, listener, dpc, hpc, channel, result_send,
                   result_recv, cur, cur_tx, delivered, sent, received,
                   effects>>

\* impl Drop for MatchmakerImpl, lines 237-245: look up _drop_matchmaker
\* and call it.  A failed lookup is a panic; a panic while the thread is
\* already unwinding aborts the process.
MatchmakerImpl_drop ==
    /\ process = "running"
    /\ wpc = "drop_impl"
    /\ IF SYM_DROP \in plugin.symbols
       THEN /\ plugin_calls' =
                   Append(plugin_calls,
                          PluginCall("drop", Unwrapped(impl_state), None, None))
            /\ impl_state' = None
            /\ wpc' = "drop_self"
            /\ UNCHANGED <<worker_panic, process>>
       ELSE IF worker_panic = "none"
       THEN /\ Panic("get(_drop_matchmaker)", "drop_self")
            /\ impl_state' = None
            /\ UNCHANGED <<plugin_calls, process>>
       ELSE /\ wpc' = "aborted"
            /\ process' = "abort"
            /\ UNCHANGED <<plugin_calls, impl_state, worker_panic>>
    /\ UNCHANGED <<env_vars, listener, dpc, hpc, channel, result_send,
                   result_recv, cur, cur_tx, delivered, sent, received,
                   effects>>

\* `self` (the Runner, a parameter of listen) is dropped after the locals:
\* its result_send goes, which closes the channel for the receiver.
Runner_drop ==
    /\ process = "running"
    /\ wpc = "drop_self"
    /\ result_send' = FALSE
    /\ wpc' = "exiting"
    /\ UNCHANGED <<env_vars, listener, dpc, hpc, process, impl_state,
                   worker_panic, channel, result_recv, cur, cur_tx, delivered,
                   plugin_calls, sent, received, effects>>

\* The spawned closure (lines 59-61) ends: the thread's result is Ok(())
\* or the panic payload.
thread_exit ==
    /\ process = "running"
    /\ wpc = "exiting"
    /\ wpc' = IF worker_panic = "none" THEN "returned" ELSE "panicked"
    /\ UNCHANGED <<env_vars, listener, dpc, hpc, process, impl_state,
                   worker_panic, channel, result_send, result_recv, cur,
                   cur_tx, delivered, plugin_calls, sent, received, effects>>

\* ---------------------------------------------------------- ResultHandler
\* submit_tx, lines 260-276: decode the payload (unwrap), build and encode
\* the IntentTransfers, then suspend in rpc::query_epoch.
submit_tx_begin(result, n) ==
    LET decoded == try_from_slice(Unwrapped(result.tx)) IN
    IF decoded.ok
    THEN /\ cur_tx' = Some(try_to_vec(IntentTransfers(decoded.matches,
                                                      tx_source_address)))
         /\ hpc' = "query_epoch"
         /\ channel' = Tail(channel)
         /\ UNCHANGED <<effects, result_recv>>
    ELSE /\ effects' =
                Append(effects, Effect("deserialize_err", n, Unwrapped(result.tx)))
         /\ hpc' = "panicked"
         /\ result_recv' = FALSE
         /\ channel' = <<>>
         /\ UNCHANGED cur_tx

\* Mutant of ResultHandler_recv: the newest queued outcome is taken first.
ResultHandler_recv_newest ==
    /\ process = "running"
    /\ hpc = "recv"
    /\ channel # <<>>
    /\ LET result == channel[Len(channel)]
           n == Len(received) + 1
           decoded == try_from_slice(Unwrapped(result.tx))
       IN /\ received' = Append(received, result)
          /\ cur' = Some(result)
          /\ IF ~IsSome(result.tx)
             THEN /\ effects' = Announced(effects, result, n)
                  /\ channel' = SubSeq(channel, 1, Len(channel) - 1)
                  /\ UNCHANGED <<hpc, cur_tx, result_recv>>
             ELSE IF decoded.ok
             THEN /\ cur_tx' =
                         Some(try_to_vec(IntentTransfers(decoded.matches,
                                                         tx_source_address)))
                  /\ hpc' = "query_epoch"
                  /\ channel' = SubSeq(channel, 1, Len(channel) - 1)
                  /\ UNCHANGED <<effects, result_recv>>
             ELSE /\ effects' =
                         Append(effects,
                                Effect("deserialize_err", n,
                                       Unwrapped(result.tx)))
                  /\ hpc' = "panicked"
                  /\ result_recv' = FALSE
                  /\ channel' = <<>>
                  /\ UNCHANGED cur_tx
    /\ UNCHANGED <<env_vars, worker_vars, dpc, process, result_send, sent>>

\* ResultHandler::run, lines 249-256: recv() yields the oldest queued
\* outcome; the handler runs up to its next suspension point.
ResultHandler_recv ==
    /\ process = "running"
    /\ hpc = "recv"
    /\ channel # <<>>
    /\ LET result == Head(channel)
           n == Len(received) + 1
       IN /\ received' = Append(received, result)
          /\ cur' = Some(result)
          /\ IF IsSome(result.tx)
             THEN submit_tx_begin(result, n)
             ELSE /\ effects' = Announced(effects, result, n)
                  /\ channel' = Tail(channel)
                  /\ UNCHANGED <<hpc, cur_tx, result_recv>>
    /\ UNCHANGED <<env_vars, worker_vars, dpc, process, result_send, sent>>

\* submit_tx, lines 267-279: rpc::query_epoch returns the ledger's current
\* epoch and the WrapperTx is built; the handler suspends in broadcast_tx.
submit_tx_query_epoch ==
    /\ process = "running"
    /\ hpc = "query_epoch"
    /\ \E epoch \in Epochs :
           /\ effects' =
                  Append(effects, Effect("query_epoch", Len(received), epoch))
           /\ cur_tx' = Some(WrapperTx_new(epoch, Unwrapped(cur_tx)))
    /\ hpc' = "broadcast"
    /\ UNCHANGED <<env_vars, worker_vars, dpc, process, channel, result_send,
                   result_recv, cur, received, sent>>

\* Mutant of submit_tx_response: an Err from broadcast_tx is unwrapped
\* instead of logged, so it ends the handler.
submit_tx_response_unwrapped(response_ok) ==
    /\ effects' =
           Append(effects,
                  Effect("broadcast", Len(received),
                         [tx |-> Unwrapped(cur_tx), ok |-> response_ok]))
    /\ IF response_ok
       THEN hpc' = "recv" /\ UNCHANGED result_recv
       ELSE hpc' = "panicked" /\ result_recv' = FALSE
    /\ cur_tx' = None

\* Mutant of submit_tx_response: a failed broadcast is tried again.
submit_tx_response_retry(response_ok) ==
    IF response_ok
    THEN /\ effects' =
                Announced(Append(effects,
                                 Effect("broadcast", Len(received),
                                        [tx |-> Unwrapped(cur_tx),
                                         ok |-> response_ok])),
                          Unwrapped(cur), Len(received))
         /\ hpc' = "recv"
         /\ cur_tx' = None
         /\ UNCHANGED result_recv
    ELSE /\ effects' =
                Append(effects,
                       Effect("broadcast", Len(received),
                              [tx |-> Unwrapped(cur_tx), ok |-> response_ok]))
         /\ UNCHANGED <<hpc, cur_tx, result_recv>>

\* The state of the handler once broadcast_tx has returned `response`
\* (lines 284-298 log it either way), back in run at lines 253-256.
submit_tx_response(response_ok) ==
    /\ effects' =
           Announced(Append(effects,
                            Effect("broadcast", Len(received),
                                   [tx |-> Unwrapped(cur_tx),
                                    ok |-> response_ok])),
                     Unwrapped(cur), Len(received))
    /\ hpc' = "recv"
    /\ cur_tx' = None
    /\ UNCHANGED result_recv

\* submit_tx, lines 281-298: broadcast_tx returns Ok or Err.
submit_tx_broadcast ==
    /\ process = "running"
    /\ hpc = "broadcast"
    /\ \E response_ok \in BOOLEAN : submit_tx_response(response_ok)
    /\ UNCHANGED <<env_vars, worker_vars, dpc, process, channel, result_send,
                   cur, received, sent>>

\* ResultHandler::run, line 249: recv() yields None once every sender is
\* dropped and the queue is empty; run returns and drops the receiver.
ResultHandler_closed ==
    /\ process = "running"
    /\ hpc = "recv"
    /\ channel = <<>>
    /\ ~result_send
    /\ hpc' = "returned"
    /\ result_recv' = FALSE
    /\ cur' = None
    /\ UNCHANGED <<env_vars, worker_vars, dpc, process, channel, result_send,
                   cur_tx, received, effects, sent>>

\* ------------------------------------------------------------------- Next
Next ==
    \/ run_spawn
    \/ run_await
    \/ run_unwind
    \/ run_join
    \/ listen_load
    \/ listen_construct
    \/ listen_AddIntent
    \/ listen_end
    \/ MatchmakerImpl_drop
    \/ Runner_drop
    \/ thread_exit
    \/ ResultHandler_recv
    \/ submit_tx_query_epoch
    \/ submit_tx_broadcast
    \/ ResultHandler_closed

Spec == Init /\ [][Next]_vars

\* ------------------------------------------------------- derived notions
\* The add_intent calls made so far, in order.
AddCalls == SelectSeq(plugin_calls, LAMBDA c : c.op = "add")
NewCalls == SelectSeq(plugin_calls, LAMBDA c : c.op = "new")
DropCalls == SelectSeq(plugin_calls, LAMBDA c : c.op = "drop")

\* The module file is present, opens, and exports the three entry points.
ModuleLoads ==
    /\ plugin.exists
    /\ plugin.opens
    /\ RequiredSymbols \subseteq plugin.symbols

\* Runner::listen has returned or has unwound completely.
ListenDone == wpc \in {"exiting", "returned", "panicked"}

\* The worker thread exists no more: it ended, or the process was aborted
\* from inside it.
WorkerGone == wpc \in {"returned", "panicked", "aborted"}

\* ResultHandler::run is over, by return or by panic.
HandlerOver == hpc \in {"returned", "panicked"}

\* The handler has nothing left to do for the n-th outcome it received.
HandlerPast(n) ==
    \/ n < Len(received)
    \/ n = Len(received) /\ hpc \in {"recv", "returned", "panicked"}

IsPrefix(s, t) == Len(s) <= Len(t) /\ \A i \in 1..Len(s) : s[i] = t[i]

EffectsOf(n) == SelectSeq(effects, LAMBDA e : e.n = n)

\* ------------------------------------------------------------------ claims

\* C1: every AddIntent message the listener delivered has exactly one
\* outcome on the handoff channel, the one the plugin returned for that
\* intent, and the ResultHandler receives the outcomes in arrival order.
C1_OneOutcomePerAddIntent ==
    /\ Len(AddCalls) = Len(delivered)
    /\ Len(sent) = Len(delivered)
    /\ \A i \in 1..Len(sent) :
           /\ AddCalls[i].intent = Some(delivered[i])
           /\ Some(sent[i]) = AddCalls[i].result
    /\ IsPrefix(received, sent)

C3_BothEffectsUngated ==
    \A n \in 1..Len(received) :
        ( /\ IsSome(received[n].tx)
          /\ IsSome(received[n].matched_intents)
          /\ HandlerPast(n) )
        => LET es == EffectsOf(n) IN
           /\ Len(es) >= 2
           /\ es[Len(es)].kind = "matched"
           /\ es[Len(es)].val = Unwrapped(received[n].matched_intents)
           /\ \A i \in 1..(Len(es) - 1) : es[i].kind # "matched"

\* C4: a payload that fails to deserialize is dropped and the ResultHandler
\* keeps running: neither it nor the driver ends because of it.
C4_DeserializeFailureIsLocal ==
    (\E i \in 1..Len(effects) : effects[i].kind = "deserialize_err")
        => /\ hpc # "panicked"
           /\ dpc # "panicked"
           /\ process # "panic"

\* C5: a failed broadcast for outcome n is not propagated: the handler does
\* for n what it does after a successful broadcast (the announcement, when
\* the outcome has matched intents, and nothing else), then waits for the
\* next outcome, and receives it.
C5_BroadcastFailureNotPropagated ==
    \A i \in 1..Len(effects) :
        (effects[i].kind = "broadcast" /\ ~effects[i].val.ok) =>
            LET n == effects[i].n
                es == EffectsOf(n)
            IN /\ HandlerPast(n)
               /\ Len(received) = n => hpc \in {"recv", "returned"}
               /\ hpc = "returned" => Len(received) = Len(sent)
               /\ IF IsSome(received[n].matched_intents)
                  THEN /\ i < Len(effects)
                       /\ effects[i + 1] =
                              Effect("matched", n,
                                     Unwrapped(received[n].matched_intents))
                       /\ es[Len(es)] = effects[i + 1]
                  ELSE es[Len(es)] = effects[i]

C5_Witness ==
    \E i \in 1..Len(effects) :
        /\ effects[i].kind = "broadcast"
        /\ ~effects[i].val.ok
        /\ Len(received) > effects[i].n
        /\ \E j \in (i + 1)..Len(effects) :
               effects[j].n = effects[i].n + 1 /\ effects[j].kind = "broadcast"

\* C6: the ResultHandler ends only with the channel closed (the Runner's
\* sender dropped) and empty, with every outcome that was sent received
\* once, in order, and fully processed.
C6_EndsOnlyClosedAndDrained ==
    HandlerOver =>
        /\ ~result_send
        /\ channel = <<>>
        /\ received = sent
        /\ \A n \in 1..Len(sent) : HandlerPast(n)
        /\ hpc = "returned"

\* C7: after a send on a channel whose receiver is gone the loop stops (the
\* failed send belongs to the last add_intent call) and, once the worker
\* thread is gone, the destructor has been called exactly once.
C7_SendFailureStillDestroys ==
    worker_panic = "send" =>
        /\ Len(AddCalls) = Len(sent) + 1
        /\ Len(AddCalls) = Len(delivered)
        /\ WorkerGone => Len(DropCalls) = 1

\* C8: a missing module or an unresolved entry point is found at load time:
\* the constructor is called, and an intent is taken from the listener,
\* only for a module with all three entry points, and no lookup fails in a
\* per-intent call or at teardown.
C8_LoadIsStartupPrecondition ==
    /\ (plugin_calls # <<>> \/ delivered # <<>>) => ModuleLoads
    /\ worker_panic \notin {"get(_add_intent)", "get(_drop_matchmaker)"}

\* C9: a null handle from the constructor is fatal: the loop never listens
\* with it and add_intent is never called with it.
C9_NullHandleIsFatal ==
    /\ \A i \in 1..Len(plugin_calls) :
           plugin_calls[i].op = "add" => plugin_calls[i].handle # NullHandle
    /\ impl_state = Some(NullHandle) => wpc \notin {"listening"}

\* C10: after a panic in the worker the ResultHandler sees the channel
\* close and returns, and the process ends through the driver's join with
\* exit status 1, in no other way.
C10_WorkerPanicExitsWithStatus1 ==
    worker_panic # "none" =>
        /\ hpc # "panicked"
        /\ process \in {"running", "exit1"}
        /\ WorkerGone => wpc = "panicked"

\* --------------------------------------------------------------- lemmas
\* What the code does guarantee on the paths the refuted claims leave out.

\* When ResultHandler::run returns, the sender is dropped, the channel is
\* empty and every outcome sent was received once, in order.
ReturnDrainsChannel ==
    hpc = "returned" =>
        /\ ~result_send
        /\ channel = <<>>
        /\ received = sent

\* The channel is FIFO: what was sent is what was received followed by
\* what is queued, unless the receiver is gone.
ChannelIsFifo == result_recv => sent = received \o channel

\* The send fails only after the ResultHandler has panicked.
SendFailsOnlyAfterHandlerPanic == worker_panic = "send" => hpc = "panicked"

\* With the destructor exported, an unwinding worker calls it once.
UnwindDestroys ==
    (SYM_DROP \in plugin.symbols /\ wpc = "panicked" /\ Len(NewCalls) = 1)
        => Len(DropCalls) = 1

\* No payload has failed to deserialize so far.
AllDecoded == \A i \in 1..Len(effects) : effects[i].kind # "deserialize_err"

\* With the three entry points exported and every payload decodable, each
\* delivered AddIntent has its one outcome on the channel, in order.
OneOutcomePerAddIntentWhenSound ==
    (ModuleLoads /\ AllDecoded) => C1_OneOutcomePerAddIntent

\* While every payload decodes, both effects of an outcome are performed
\* and the handler ends only on a closed, drained channel.
HandlerSoundWhileAllDecoded ==
    AllDecoded => (C3_BothEffectsUngated /\ C6_EndsOnlyClosedAndDrained)

\* With the three entry points exported, a failed send still leads to one
\* destructor call before the worker thread is gone.
SendFailureDestroysWhenLoaded ==
    ModuleLoads => C7_SendFailureStillDestroys

\* With the three entry points exported and every payload decodable, a
\* worker panic ends the process through the join only.
WorkerPanicExitsWhenSound ==
    (ModuleLoads /\ AllDecoded) => C10_WorkerPanicExitsWithStatus1

\* ------------------------------------------------- claims, second part

\* The IntentTransfers a serialized transaction body decodes to (the
\* inverse of try_to_vec).
IntentTransfers_from_vec(bytes) ==
    [matches |-> SubSeq(bytes, 2, Len(bytes) - 1),
     source |-> bytes[Len(bytes)],
     ok |-> Len(bytes) >= 2 /\ bytes[1] = Len(bytes) - 2]

\* C11: an outcome with matched intent IDs and no transaction payload
\* produces exactly one Matched announcement carrying those IDs in the same
\* order, and no epoch query and no broadcast.
C11_MatchedOnlyAnnouncesOnce ==
    \A n \in 1..Len(received) :
        (~IsSome(received[n].tx) /\ IsSome(received[n].matched_intents))
        => EffectsOf(n) =
               <<Effect("matched", n, Unwrapped(received[n].matched_intents))>>

C11_Witness ==
    \E n \in 1..Len(received) :
        /\ ~IsSome(received[n].tx)
        /\ IsSome(received[n].matched_intents)
        /\ Len(EffectsOf(n)) = 1
        /\ hpc = "returned"

\* C12: an outcome with only a transaction payload, one that deserializes,
\* produces exactly one broadcast, of a transaction whose body embeds the
\* configured tx_source_address and the payload's matches, and no Matched
\* announcement.
C12_TxOnlyBroadcastsOnce ==
    \A n \in 1..Len(received) :
        ( /\ IsSome(received[n].tx)
          /\ try_from_slice(Unwrapped(received[n].tx)).ok
          /\ ~IsSome(received[n].matched_intents)
          /\ HandlerPast(n) )
        => LET es == EffectsOf(n) IN
           /\ Len(es) = 2
           /\ es[1].kind = "query_epoch"
           /\ es[2].kind = "broadcast"
           /\ LET body ==
                      IntentTransfers_from_vec(Unwrapped(es[2].val.tx.tx.data))
              IN /\ body.ok
                 /\ body.source = tx_source_address
                 /\ body.matches =
                        try_from_slice(Unwrapped(received[n].tx)).matches

C12_Witness ==
    \E n \in 1..Len(received) :
        /\ IsSome(received[n].tx)
        /\ ~IsSome(received[n].matched_intents)
        /\ HandlerPast(n)
        /\ \E i \in 1..Len(effects) :
               effects[i].n = n /\ effects[i].kind = "broadcast"

\* Every outcome the plugin has returned so far is a no-match.
AllNoMatch ==
    \A i \in 1..Len(AddCalls) :
        /\ ~IsSome(Unwrapped(AddCalls[i].result).tx)
        /\ ~IsSome(Unwrapped(AddCalls[i].result).matched_intents)

\* C13: an outcome with both fields absent produces no epoch query, no
\* broadcast and no announcement; when every outcome is a no-match nothing
\* at all is submitted or announced and the pipeline does not fail: it
\* returns once the channel is closed and empty.
C13_NoMatchNoEffect ==
    /\ \A n \in 1..Len(received) :
           (~IsSome(received[n].tx) /\ ~IsSome(received[n].matched_intents))
           => EffectsOf(n) = <<>>
    /\ AllNoMatch =>
           /\ effects = <<>>
           /\ hpc # "panicked"
           /\ process # "panic"
           /\ (hpc = "recv" /\ channel = <<>> /\ ~result_send
                   /\ process = "running")
                  => ENABLED ResultHandler_closed

C13_Witness ==
    /\ AllNoMatch
    /\ Len(received) >= 2
    /\ hpc = "returned"
    /\ effects = <<>>

\* C14: every call into the plugin is made on the worker thread with the
\* very handle the constructor returned, the handle kept by the worker is
\* never another one, and nothing is called after the destructor.
C14_HandleExclusiveAndUnchanged ==
    /\ \A i \in 1..Len(plugin_calls) :
           /\ plugin_calls[i].thread = "worker"
           /\ plugin_calls[1].op = "new"
           /\ plugin_calls[i].handle = plugin_calls[1].handle
           /\ (plugin_calls[i].op = "new") => (i = 1)
           /\ (plugin_calls[i].op = "drop") => (i = Len(plugin_calls))
    /\ IsSome(impl_state) =>
           /\ plugin_calls # <<>>
           /\ Unwrapped(impl_state) = plugin_calls[1].handle
    /\ (plugin_calls # <<>> /\ ~IsSome(impl_state)) => wpc # "listening"

C14_Witness ==
    /\ Len(AddCalls) >= 2
    /\ Len(DropCalls) = 1
    /\ plugin_calls[Len(plugin_calls)].handle = plugin.handle

\* C15: while the receiver exists the send is possible whatever the
\* ResultHandler is doing and however many outcomes are queued: a worker
\* that has a message to dispatch can always put its outcome on the channel
\* and go back to listening.
C15_SendNeverBlocks ==
    ( /\ process = "running"
      /\ wpc = "listening"
      /\ listener # <<>>
      /\ result_recv
      /\ SYM_ADD \in plugin.symbols )
    => ENABLED ( /\ listen_AddIntent
                 /\ Len(channel') = Len(channel) + 1
                 /\ wpc' = "listening" )

\* The worker has dispatched a whole stream and ended while the handler
\* is still suspended in the RPCs of the first outcome.
C15_Witness ==
    /\ hpc \in {"query_epoch", "broadcast"}
    /\ Len(received) = 1
    /\ Len(sent) >= 2
    /\ Len(channel) >= 1
    /\ wpc = "returned"

\* The positions in the effects log of the effects of kind k for outcome n.
EffectIndexes(k, n) ==
    {i \in 1..Len(effects) : effects[i].kind = k /\ effects[i].n = n}

\* C16: an outcome leads to at most one broadcast attempt, also when the
\* attempt fails, and each attempt comes right after the one epoch query
\* made for that outcome, whose value is the epoch of the transaction.
C16_OneAttemptFreshEpoch ==
    /\ \A n \in 1..Len(received) :
           /\ Cardinality(EffectIndexes("broadcast", n)) <= 1
           /\ Cardinality(EffectIndexes("query_epoch", n)) <= 1
           /\ (EffectIndexes("broadcast", n) # {}) => IsSome(received[n].tx)
    /\ \A i \in 1..Len(effects) :
           effects[i].kind = "broadcast" =>
               /\ i > 1
               /\ effects[i - 1].kind = "query_epoch"
               /\ effects[i - 1].n = effects[i].n
               /\ effects[i].val.tx.epoch = effects[i - 1].val

\* Two outcomes were broadcast, the first attempt failed, and the two
\* transactions carry different epochs.
C16_Witness ==
    \E i, j \in 1..Len(effects) :
        /\ i < j
        /\ effects[i].kind = "broadcast"
        /\ effects[j].kind = "broadcast"
        /\ ~effects[i].val.ok
        /\ effects[i].val.tx.epoch # effects[j].val.tx.epoch
        /\ hpc = "returned"

\* C17: outcomes are processed one at a time in arrival order: the n-th
\* outcome received is the one of the n-th intent, the effects log never
\* goes back to an earlier outcome, and each effect carries the data of
\* the outcome it belongs to.
C17_OneAtATimeInOrder ==
    /\ \A n \in 1..Len(received) :
           /\ n <= Len(AddCalls)
           /\ Some(received[n]) = AddCalls[n].result
           /\ AddCalls[n].intent = Some(delivered[n])
    /\ \A i \in 1..Len(effects) :
           /\ effects[i].n \in 1..Len(received)
           /\ \A j \in 1..Len(effects) :
                  i < j => effects[i].n <= effects[j].n
           /\ (effects[i].kind = "matched") =>
                  Some(effects[i].val) = received[effects[i].n].matched_intents
           /\ (effects[i].kind = "broadcast") =>
                  IntentTransfers_from_vec(
                      Unwrapped(effects[i].val.tx.tx.data)).matches
                  = try_from_slice(
                        Unwrapped(received[effects[i].n].tx)).matches
    /\ (hpc \in {"query_epoch", "broadcast"}) =>
           \A i \in 1..Len(effects) :
               effects[i].n = Len(received) => effects[i].kind = "query_epoch"

\* Two outcomes with different data, both with effects, both processed.
C17_Witness ==
    /\ Len(received) >= 2
    /\ received[1] # received[2]
    /\ EffectIndexes("broadcast", 1) # {}
    /\ EffectIndexes("matched", 2) # {}
    /\ hpc = "returned"

\* The three threads of control of `run`: the caller of run (the driver),
\* the spawned worker, and the ResultHandler future the driver polls.
DriverStep == run_spawn \/ run_await \/ run_unwind \/ run_join

WorkerStep ==
    \/ listen_load
    \/ listen_construct
    \/ listen_AddIntent
    \/ listen_end
    \/ MatchmakerImpl_drop
    \/ Runner_drop
    \/ thread_exit

HandlerStep ==
    \/ ResultHandler_recv
    \/ submit_tx_query_epoch
    \/ submit_tx_broadcast
    \/ ResultHandler_closed

\* Fair scheduling of the threads; the RPC steps are handler steps, so they
\* return.
FairSpec ==
    /\ Spec
    /\ WF_vars(DriverStep)
    /\ WF_vars(WorkerStep)
    /\ WF_vars(HandlerStep)

\* The listener's stream has ended and Runner::listen has left its loop
\* through line 212, not by a panic of the loop's body or of the loading.
StreamEnded ==
    /\ listener = <<>>
    /\ wpc \notin {"not_started", "load", "construct", "listening"}
    /\ worker_panic \in {"none", "get(_drop_matchmaker)"}

\* C18: once the listener stream has ended the system terminates normally:
\* nothing panics, the process does not end through exit(1), and when run
\* has returned the plugin was destroyed, the sender dropped and every
\* outcome that was sent was received and processed.
C18_StreamEndTerminatesNormally ==
    StreamEnded =>
        /\ worker_panic = "none"
        /\ hpc # "panicked"
        /\ process \in {"running", "returned"}
        /\ process = "returned" =>
               /\ Len(DropCalls) = 1
               /\ ~result_send
               /\ received = sent
               /\ \A n \in 1..Len(sent) : HandlerPast(n)

\* C19: the plugin is destroyed before the Runner's sender is dropped:
\* with the sender gone, and so whenever the ResultHandler has returned, a
\* plugin that was constructed has been destroyed.
C19_DestroyedBeforeSenderDropped ==
    /\ (~result_send /\ Len(NewCalls) = 1) => Len(DropCalls) = 1
    /\ (hpc = "returned" /\ Len(NewCalls) = 1) => Len(DropCalls) = 1

\* C20: when the process has ended by a path of the driver (return, exit
\* with status 1, or a panic out of the ResultHandler) the worker thread
\* has finished and a constructed plugin was destroyed exactly once.
C20_TerminationAfterWorkerAndDestructor ==
    process \in {"returned", "exit1", "panic"} =>
        /\ wpc \in {"returned", "panicked"}
        /\ Len(NewCalls) = 1 => Len(DropCalls) = 1

\* ------------------------------------------------- lemmas, second part

\* With the three entry points exported and while every payload decodes,
\* the end of the listener stream is followed by no panic and no exit(1).
StreamEndIsCleanWhenSound ==
    (ModuleLoads /\ AllDecoded) => C18_StreamEndTerminatesNormally

\* Under fair scheduling, with the three entry points exported, the end of
\* the listener stream leads to the return of run unless a payload fails
\* to decode.
StreamEndLeadsToReturnWhenSound ==
    (StreamEnded /\ ModuleLoads) ~> (process = "returned" \/ ~AllDecoded)

\* With the destructor exported, the sender is dropped only after the
\* destructor call.
DestroyedBeforeSenderDroppedWhenExported ==
    (SYM_DROP \in plugin.symbols) => C19_DestroyedBeforeSenderDropped

\* With the three entry points exported and every payload decodable, the
\* driver ends the process only after the worker and the destructor.
TerminationAfterWorkerWhenSound ==
    (ModuleLoads /\ AllDecoded) => C20_TerminationAfterWorkerAndDestructor

====
